---- MODULE Spec2Model ----
(***************************************************************************)
(* Model of gohan's cluster synchronisation core (server/sync.go):        *)
(*   - the transactional outbox writer (transactionEventLogger),          *)
(*   - the commit notifier (transactionCommited channel),                 *)
(*   - the sync pump (startSyncProcess / Sync / listEvents / syncEvent),   *)
(*   - the state and monitoring reconcilers (StateUpdate,                 *)
(*     MonitoringUpdate).                                                 *)
(* The database, the sync backend and the schema manager are external     *)
(* collaborators; their calls are modelled by their documented effect and *)
(* may fail nondeterministically.                                         *)
(***************************************************************************)
EXTENDS Integers, Sequences, FiniteSets, TLC

VARIABLES
    db,        \* committed resource rows and their state records
    events,    \* committed rows of the event table (the outbox)
    nextId,    \* next auto-increment id of the event table
    tx,        \* open transactions wrapped by transactionEventLogger
    signal,    \* number of values buffered in the transactionCommited channel
    posting,   \* Commit calls whose transaction is committed and that have yet to post
    kv,        \* the sync backend: key -> value
    pump,      \* the goroutine(s) started by startSyncProcess
    oplog,     \* history: one entry per wrapper Create/Update/Delete call
    txlog,     \* history: outcome of every transaction begun
    seen,      \* history: every event row that ever became visible in the outbox
    effected,  \* history: event ids whose config-key operation succeeded
    drained,   \* history: TRUE while nothing was committed since an empty listEvents
    reports,   \* history: the state reports handled so far
    tasks      \* the goroutines the watch consumers started for reports

vars == <<db, events, nextId, tx, signal, kv, pump, oplog, txlog, seen,
          effected, drained, reports, tasks, posting>>

(***************************************************************************)
(* Bounds of the model.                                                    *)
(***************************************************************************)
MaxOps == 3          \* wrapper operations (Create/Update/Delete calls) overall
MaxTxns == 2         \* transactions begun overall
MaxReports == 3      \* state reports delivered overall
MaxReportsState == 2 \* state reports delivered under SpecState
MaxPayloadVersion == 3   \* largest version a state report carries
MaxMonitorings == 2  \* monitoring reports delivered overall
MaxOpsMonitoring == 2    \* wrapper operations under SpecMonitoring
MaxTasks == 2        \* state reports delivered under SpecTasks
PollingLimit == 2    \* page size of listEvents, scaled down from eventPollingLimit

(***************************************************************************)
(* Program constants.                                                      *)
(***************************************************************************)
configPrefix == "/config/"
statePrefix == "/state/"
monitoringPrefix == "/monitoring/"
eventPollingLimit == PollingLimit
SignalCapacity == 1

(***************************************************************************)
(* Schemas.  One resource per schema; the schema attributes the code      *)
(* reads are StateVersioning(), Metadata["nosync"] and SyncKeyTemplate().  *)
(*   net   : versioned, synced, sync_key_template rendered from {{id}}     *)
(*   plain : not versioned, synced, no template                            *)
(*   quiet : versioned, nosync                                             *)
(*   mfail : not versioned, synced, template naming a field the body lacks *)
(***************************************************************************)
Resources == {"net", "plain", "quiet", "mfail"}

StateVersioning(r) == r \in {"net", "quiet"}

NoSync(r) == r = "quiet"

SyncKeyTemplate(r) ==
    CASE r = "net" -> "id"
      [] r = "mfail" -> "failed"
      [] OTHER -> "none"

\* resource.Path(): the canonical URL path of the resource
Path(r) == [kind |-> "url", res |-> r]

NoBody == [id |-> "", val |-> 0]

\* resource.JSONString(): the JSON text of the resource's data
JSONString(r, row) == [id |-> r, val |-> row.val]

\* schema.GenerateCustomPath(data): renders the template from the body;
\* a placeholder naming a field the body lacks is an error.
GenerateCustomPath(r, body) ==
    IF SyncKeyTemplate(r) = "id"
    THEN [err |-> FALSE, path |-> [kind |-> "custom", res |-> body.id]]
    ELSE [err |-> TRUE, path |-> [kind |-> "custom", res |-> ""]]

(***************************************************************************)
(* The database collaborator.                                              *)
(***************************************************************************)
NoRow == [exists |-> FALSE, val |-> 0, config_version |-> 0, state_version |-> 0,
          state |-> "", error |-> "", monitoring |-> ""]

\* Transaction.Create: the new row; a versioned resource starts at
\* config_version 1, state_version 0.
DbCreate(r, v) ==
    [NoRow EXCEPT !.exists = TRUE, !.val = v,
                  !.config_version = IF StateVersioning(r) THEN 1 ELSE 0]

\* Transaction.Update: new data; config_version is incremented on each
\* successful config mutation of a versioned resource.
DbUpdate(r, row, v) ==
    [row EXCEPT !.val = v,
                !.config_version = IF StateVersioning(r) THEN @ + 1 ELSE @]

NoTx == [open |-> FALSE, txn |-> 0, touched |-> {}, rows |-> [r \in Resources |-> NoRow],
         pending |-> <<>>, eventLogged |-> FALSE, failed |-> FALSE]

Txs == {"t1"}

\* the goroutines that reconcile reports (sync.go:527, 562)
Tasks == {"g1", "g2"}

\* what transaction T reads for resource r: its own writes, else committed data
Read(T, r) == IF r \in T.touched THEN T.rows[r] ELSE db[r]

Write(T, r, row) == [T EXCEPT !.touched = @ \cup {r}, !.rows[r] = row]

\* a row written by an open transaction, of a writer or of a reconciler
\* between its tx.StateUpdate and its end, is locked against the others
Locked(t, r) ==
    \/ \E u \in Txs \ {t} : tx[u].open /\ r \in tx[u].touched
    \/ \E g \in Tasks : tasks[g].stage = "post" /\ tasks[g].res = r

\* row r is held against the write of the reconciler of goroutine g
Held(g, r) ==
    \/ \E t \in Txs : tx[t].open /\ r \in tx[t].touched
    \/ \E h \in Tasks \ {g} : tasks[h].stage = "post" /\ tasks[h].res = r

Faults == {"none", "mutate", "fetch", "stateFetch", "eventSchema", "json", "insert"}

(***************************************************************************)
(* transactionEventLogger: the outbox writer.  Every operator returns the  *)
(* transaction after the call and the error the call returns.              *)
(***************************************************************************)
Event(id, eventType, r, version, body, opn) ==
    [id |-> id, type |-> eventType, path |-> Path(r), version |-> version,
     body |-> body, op |-> opn]

\* logEvent losing the error of the insertion of the event row
logEventLosesError(T, eventType, r, row, version, fault, opn) ==
    IF fault = "eventSchema" THEN [T |-> T, err |-> TRUE]
    ELSE IF NoSync(r) THEN [T |-> T, err |-> FALSE]
    ELSE IF fault = "json" THEN [T |-> T, err |-> TRUE]
    ELSE IF fault = "insert"
         THEN [T |-> [T EXCEPT !.eventLogged = TRUE], err |-> FALSE]
         ELSE [T |-> [T EXCEPT !.eventLogged = TRUE,
                               !.pending = Append(@, Event(nextId, eventType, r,
                                                           version, JSONString(r, row), opn))],
               err |-> FALSE]

\* logEvent without the nosync test
logEventNoSkip(T, eventType, r, row, version, fault, opn) ==
    IF fault \in {"eventSchema", "json"} THEN [T |-> T, err |-> TRUE]
    ELSE IF fault = "insert"
         THEN [T |-> [T EXCEPT !.eventLogged = TRUE], err |-> TRUE]
         ELSE [T |-> [T EXCEPT !.eventLogged = TRUE,
                               !.pending = Append(@, Event(nextId, eventType, r,
                                                           version, JSONString(r, row), opn))],
               err |-> FALSE]

\* logEvent (sync.go:82-106).  `row` is the resource the event describes.
logEvent(T, eventType, r, row, version, fault, opn) ==
    IF fault = "eventSchema" THEN [T |-> T, err |-> TRUE]
    ELSE IF NoSync(r) THEN [T |-> T, err |-> FALSE]
    ELSE IF fault = "json" THEN [T |-> T, err |-> TRUE]
    ELSE IF fault = "insert"
         THEN [T |-> [T EXCEPT !.eventLogged = TRUE], err |-> TRUE]
         ELSE [T |-> [T EXCEPT !.eventLogged = TRUE,
                               !.pending = Append(@, Event(nextId, eventType, r,
                                                           version, JSONString(r, row), opn))],
               err |-> FALSE]

\* Create (sync.go:108-114)
Create(T, r, v, fault, opn) ==
    IF fault = "mutate" \/ Read(T, r).exists THEN [T |-> T, err |-> TRUE]
    ELSE LET T1 == Write(T, r, DbCreate(r, v))
         IN logEvent(T1, "create", r, Read(T1, r), 1, fault, opn)

\* Update (sync.go:116-129)
Update(T, r, v, fault, opn) ==
    IF fault = "mutate" \/ ~Read(T, r).exists THEN [T |-> T, err |-> TRUE]
    ELSE LET T1 == Write(T, r, DbUpdate(r, Read(T, r), v))
         IN IF ~StateVersioning(r)
            THEN logEvent(T1, "update", r, Read(T1, r), 0, fault, opn)
            ELSE IF fault = "stateFetch" THEN [T |-> T1, err |-> TRUE]
            ELSE logEvent(T1, "update", r, Read(T1, r), Read(T1, r).config_version, fault, opn)

\* Delete reading the config version without adding one
DeleteNoBump(T, r, fault, opn) ==
    IF fault = "fetch" \/ ~Read(T, r).exists THEN [T |-> T, err |-> TRUE]
    ELSE LET resource == Read(T, r)
             configVersion == IF StateVersioning(r) THEN resource.config_version ELSE 0
         IN IF StateVersioning(r) /\ fault = "stateFetch" THEN [T |-> T, err |-> TRUE]
            ELSE IF fault = "mutate" THEN [T |-> T, err |-> TRUE]
            ELSE logEvent(Write(T, r, NoRow), "delete", r, resource, configVersion, fault, opn)

\* Delete (sync.go:131-149)
Delete(T, r, fault, opn) ==
    IF fault = "fetch" \/ ~Read(T, r).exists THEN [T |-> T, err |-> TRUE]
    ELSE LET resource == Read(T, r)
             configVersion == IF StateVersioning(r) THEN resource.config_version + 1 ELSE 0
         IN IF StateVersioning(r) /\ fault = "stateFetch" THEN [T |-> T, err |-> TRUE]
            ELSE IF fault = "mutate" THEN [T |-> T, err |-> TRUE]
            ELSE logEvent(Write(T, r, NoRow), "delete", r, resource, configVersion, fault, opn)

\* history entry of one wrapper call
OpEntry(t, eventType, r, res) ==
    [txn |-> tx[t].txn, type |-> eventType, res |-> r, ok |-> ~res.err,
     before |-> Read(tx[t], r), after |-> Read(res.T, r)]

\* A call that fails and leaves the transaction as it was is not recorded.
Called(t, eventType, r, res) ==
    /\ tx' = [tx EXCEPT ![t] = [res.T EXCEPT !.failed = res.err]]
    /\ nextId' = nextId + (Len(res.T.pending) - Len(tx[t].pending))
    /\ oplog' = IF res.err /\ res.T = tx[t] THEN oplog
                ELSE Append(oplog, OpEntry(t, eventType, r, res))
    /\ UNCHANGED <<tasks, posting, db, events, signal, kv, pump, txlog, seen, effected,
                   drained, reports>>

\* The callers' contract: after a call returned an error the transaction is
\* closed without a commit (it rolls back).
CanCall(t, r) == tx[t].open /\ ~tx[t].failed /\ Len(oplog) < MaxOps /\ ~Locked(t, r)

\* DbSyncWrapper.Begin (sync.go:65-71)
Begin(t) ==
    /\ ~tx[t].open
    /\ Len(txlog) < MaxTxns
    /\ tx' = [tx EXCEPT ![t] = [NoTx EXCEPT !.open = TRUE, !.txn = Len(txlog) + 1]]
    /\ txlog' = Append(txlog, "open")
    /\ UNCHANGED <<tasks, posting, db, events, nextId, signal, kv, pump, oplog, seen, effected,
                   drained, reports>>

\* The data a caller writes is a token that differs from call to call.
NewVal == Len(oplog) + 1

CallCreate(t, r, fault) ==
    /\ CanCall(t, r)
    /\ Called(t, "create", r, Create(tx[t], r, NewVal, fault, Len(oplog) + 1))

CallUpdate(t, r, fault) ==
    /\ CanCall(t, r)
    /\ Called(t, "update", r, Update(tx[t], r, NewVal, fault, Len(oplog) + 1))

CallDelete(t, r, fault) ==
    /\ CanCall(t, r)
    /\ Called(t, "delete", r, Delete(tx[t], r, fault, Len(oplog) + 1))

Range(s) == {s[i] : i \in 1..Len(s)}

\* a post that is never dropped
PostUnbounded(n) == n + 1

\* the non-blocking post of Commit (sync.go:159-163): a full channel drops it
Post(n) == IF n < SignalCapacity THEN n + 1 ELSE n

\* The callers' contract again: a transaction in which a call failed is not
\* committed.
CanCommit(t) == ~tx[t].failed

\* Commit up to the return of the underlying Commit (sync.go:151-158).
\* ok = FALSE: the underlying Commit fails and the transaction is closed
\* without effect.  A committed transaction that logged an event has its
\* post still to do.
Commit(t, ok) ==
    /\ tx[t].open
    /\ tx' = [tx EXCEPT ![t] = NoTx]
    /\ IF ok
       THEN /\ db' = [r \in Resources |-> Read(tx[t], r)]
            /\ events' = events \cup Range(tx[t].pending)
            /\ seen' = seen \cup Range(tx[t].pending)
            /\ txlog' = [txlog EXCEPT ![tx[t].txn] = "committed"]
            /\ posting' = IF tx[t].eventLogged THEN posting + 1 ELSE posting
            /\ drained' = (drained /\ tx[t].pending = <<>>)
       ELSE /\ txlog' = [txlog EXCEPT ![tx[t].txn] = "aborted"]
            /\ UNCHANGED <<db, events, seen, posting, drained>>
    /\ UNCHANGED <<tasks, signal, nextId, kv, pump, oplog, effected, reports>>

\* the rest of Commit (sync.go:159-164): the post to the commit signal
CommitPost ==
    /\ posting > 0
    /\ posting' = posting - 1
    /\ signal' = Post(signal)
    /\ UNCHANGED <<tasks, db, events, nextId, tx, kv, pump, oplog, txlog, seen, effected,
                   drained, reports>>

\* Close without Commit: the transaction rolls back
Close(t) ==
    /\ tx[t].open
    /\ tx' = [tx EXCEPT ![t] = NoTx]
    /\ txlog' = [txlog EXCEPT ![tx[t].txn] = "aborted"]
    /\ UNCHANGED <<tasks, posting, db, events, nextId, signal, kv, pump, oplog, seen, effected,
                   drained, reports>>

(***************************************************************************)
(* The sync backend and the pump.                                          *)
(***************************************************************************)
Prefixes == {configPrefix, statePrefix, monitoringPrefix}

Key(prefix, path) == [prefix |-> prefix, path |-> path]

Keys == {Key(x, [kind |-> k, res |-> r]) :
            x \in Prefixes, k \in {"url", "custom"}, r \in Resources}

Absent == [present |-> FALSE, body |-> NoBody, version |-> 0]

\* the content with the zero value in place of the event's version
ContentZeroVersion(body, version) == [present |-> TRUE, body |-> body, version |-> 0]

\* json.Marshal of {"body": body, "version": version} (sync.go:205-208)
Content(body, version) == [present |-> TRUE, body |-> body, version |-> version]

\* schema.GetSchemaByURLPath(resourcePath)
SchemaOf(resourcePath) == resourcePath.res

\* generatePath (sync.go:264-283)
generatePath(resourcePath, body) ==
    LET curSchema == SchemaOf(resourcePath)
        custom == GenerateCustomPath(curSchema, body)
    IN Key(configPrefix,
           IF SyncKeyTemplate(curSchema) # "none" /\ ~custom.err
           THEN custom.path ELSE resourcePath)

SyncFaults == {"begin", "update", "del1", "del2", "del3"}

SyncDelete(store, key, fails) == IF fails THEN store ELSE [store EXCEPT ![key] = Absent]

\* one call of the sync backend: the operation, the key and whether it succeeded
Call(op, key, ok) == [op |-> op, key |-> key, ok |-> ok]

\* syncEvent giving up at the first DELETE that fails
syncApplyStopsAtFirst(e, F) ==
    LET path == generatePath(e.path, e.body)
        resourceSchema == SchemaOf(e.path)
        custom == GenerateCustomPath(resourceSchema, e.body)
        hasTemplate == SyncKeyTemplate(resourceSchema) # "none"
        deletePath == IF hasTemplate THEN custom.path ELSE e.path
        kv1 == SyncDelete(kv, Key(statePrefix, deletePath), "del1" \in F)
        kv2 == SyncDelete(kv1, Key(monitoringPrefix, deletePath), "del2" \in F)
        first == Call("DELETE", Key(statePrefix, deletePath), "del1" \notin F)
        second == Call("DELETE", Key(monitoringPrefix, deletePath), "del2" \notin F)
        twins == <<first, second>>
        nothing == [err |-> TRUE, kv |-> kv, wrote |-> FALSE, done |-> FALSE, calls |-> <<>>]
    IN IF "begin" \in F THEN nothing
       ELSE IF e.type \in {"create", "update"}
       THEN IF "update" \in F
            THEN [err |-> TRUE, kv |-> kv, wrote |-> FALSE, done |-> FALSE,
                  calls |-> <<Call("PUT", path, FALSE)>>]
            ELSE [err |-> FALSE, kv |-> [kv EXCEPT ![path] = Content(e.body, e.version)],
                  wrote |-> TRUE, done |-> TRUE, calls |-> <<Call("PUT", path, TRUE)>>]
       ELSE IF e.type = "delete"
       THEN IF hasTemplate /\ custom.err THEN nothing
            ELSE IF "del1" \in F
                 THEN [err |-> TRUE, kv |-> kv, wrote |-> FALSE, done |-> FALSE,
                       calls |-> <<first>>]
            ELSE IF "del2" \in F
                 THEN [err |-> TRUE, kv |-> kv1, wrote |-> TRUE, done |-> FALSE,
                       calls |-> twins]
            ELSE IF "del3" \in F
                 THEN [err |-> TRUE, kv |-> kv2, wrote |-> TRUE,
                       done |-> FALSE, calls |-> Append(twins, Call("DELETE", path, FALSE))]
                 ELSE [err |-> FALSE, kv |-> SyncDelete(kv2, path, FALSE), wrote |-> TRUE,
                       done |-> TRUE, calls |-> Append(twins, Call("DELETE", path, TRUE))]
       ELSE [err |-> FALSE, kv |-> kv, wrote |-> FALSE, done |-> FALSE, calls |-> <<>>]

\* syncEvent going on to delete the row after a failed Update of the key
syncApplyIgnoresError(e, F) ==
    LET path == generatePath(e.path, e.body)
        resourceSchema == SchemaOf(e.path)
        custom == GenerateCustomPath(resourceSchema, e.body)
        hasTemplate == SyncKeyTemplate(resourceSchema) # "none"
        deletePath == IF hasTemplate THEN custom.path ELSE e.path
        kv1 == SyncDelete(kv, Key(statePrefix, deletePath), "del1" \in F)
        kv2 == SyncDelete(kv1, Key(monitoringPrefix, deletePath), "del2" \in F)
        twins == <<Call("DELETE", Key(statePrefix, deletePath), "del1" \notin F),
                   Call("DELETE", Key(monitoringPrefix, deletePath), "del2" \notin F)>>
        nothing == [err |-> TRUE, kv |-> kv, wrote |-> FALSE, done |-> FALSE, calls |-> <<>>]
    IN IF "begin" \in F THEN nothing
       ELSE IF e.type \in {"create", "update"}
       THEN IF "update" \in F
            THEN [err |-> FALSE, kv |-> kv, wrote |-> FALSE, done |-> FALSE,
                  calls |-> <<Call("PUT", path, FALSE)>>]
            ELSE [err |-> FALSE, kv |-> [kv EXCEPT ![path] = Content(e.body, e.version)],
                  wrote |-> TRUE, done |-> TRUE, calls |-> <<Call("PUT", path, TRUE)>>]
       ELSE IF e.type = "delete"
       THEN IF hasTemplate /\ custom.err THEN nothing
            ELSE IF "del3" \in F
                 THEN [err |-> TRUE, kv |-> kv2, wrote |-> F \cap {"del1", "del2"} # {"del1", "del2"},
                       done |-> FALSE, calls |-> Append(twins, Call("DELETE", path, FALSE))]
                 ELSE [err |-> FALSE, kv |-> SyncDelete(kv2, path, FALSE), wrote |-> TRUE,
                       done |-> TRUE, calls |-> Append(twins, Call("DELETE", path, TRUE))]
       ELSE [err |-> FALSE, kv |-> kv, wrote |-> FALSE, done |-> FALSE, calls |-> <<>>]

\* syncEvent up to the sync-backend calls (sync.go:183-247).  F names the
\* calls that fail.  wrote: some sync-backend call succeeded; done: the
\* config-key call of the event succeeded.
syncApply(e, F) ==
    LET path == generatePath(e.path, e.body)
        resourceSchema == SchemaOf(e.path)
        custom == GenerateCustomPath(resourceSchema, e.body)
        hasTemplate == SyncKeyTemplate(resourceSchema) # "none"
        deletePath == IF hasTemplate THEN custom.path ELSE e.path
        kv1 == SyncDelete(kv, Key(statePrefix, deletePath), "del1" \in F)
        kv2 == SyncDelete(kv1, Key(monitoringPrefix, deletePath), "del2" \in F)
        twins == <<Call("DELETE", Key(statePrefix, deletePath), "del1" \notin F),
                   Call("DELETE", Key(monitoringPrefix, deletePath), "del2" \notin F)>>
        nothing == [err |-> TRUE, kv |-> kv, wrote |-> FALSE, done |-> FALSE, calls |-> <<>>]
    IN IF "begin" \in F THEN nothing
       ELSE IF e.type \in {"create", "update"}
       THEN IF "update" \in F
            THEN [err |-> TRUE, kv |-> kv, wrote |-> FALSE, done |-> FALSE,
                  calls |-> <<Call("PUT", path, FALSE)>>]
            ELSE [err |-> FALSE, kv |-> [kv EXCEPT ![path] = Content(e.body, e.version)],
                  wrote |-> TRUE, done |-> TRUE, calls |-> <<Call("PUT", path, TRUE)>>]
       ELSE IF e.type = "delete"
       THEN IF hasTemplate /\ custom.err THEN nothing
            ELSE IF "del3" \in F
                 THEN [err |-> TRUE, kv |-> kv2, wrote |-> F \cap {"del1", "del2"} # {"del1", "del2"},
                       done |-> FALSE, calls |-> Append(twins, Call("DELETE", path, FALSE))]
                 ELSE [err |-> FALSE, kv |-> SyncDelete(kv2, path, FALSE), wrote |-> TRUE,
                       done |-> TRUE, calls |-> Append(twins, Call("DELETE", path, TRUE))]
       ELSE [err |-> FALSE, kv |-> kv, wrote |-> FALSE, done |-> FALSE, calls |-> <<>>]

MinId(S) == CHOOSE e \in S : \A f \in S : e.id <= f.id

RECURSIVE SortAsc(_)
SortAsc(S) == IF S = {} THEN <<>> ELSE <<MinId(S)>> \o SortAsc(S \ {MinId(S)})

Take(s, n) == SubSeq(s, 1, IF Len(s) < n THEN Len(s) ELSE n)

MaxId(S) == CHOOSE e \in S : \A f \in S : e.id >= f.id

RECURSIVE SortDesc(_)
SortDesc(S) == IF S = {} THEN <<>> ELSE <<MaxId(S)>> \o SortDesc(S \ {MaxId(S)})

\* listEvents with the paginator ordering by id DESC
listEventsDesc == Take(SortDesc(events), eventPollingLimit)

\* listEvents with a page one row short
listEventsShort == Take(SortAsc(events), eventPollingLimit - 1)

\* listEvents (sync.go:167-181): the first page of the event table by id ASC
listEvents == Take(SortAsc(events), eventPollingLimit)

Pumps == {"p1", "p2"}

IdlePump == [pc |-> "idle", lockOk |-> TRUE, recentlySynced |-> FALSE, batch |-> <<>>,
             i |-> 0, wrote |-> <<>>, dropped |-> {}, failed |-> 0]

\* one pass of the loop body up to server.Sync() (sync.go:302-303): the
\* return value of Lock is not looked at
StartSync(P, lockOk, recentlySynced) ==
    [IdlePump EXCEPT !.pc = "list", !.lockOk = lockOk, !.recentlySynced = recentlySynced]

\* the ticker case leaving recentlySynced set
PumpTickSticky(p, lockOk) ==
    /\ pump[p].pc = "idle"
    /\ pump' = [pump EXCEPT ![p] =
                   IF pump[p].recentlySynced
                   THEN pump[p]
                   ELSE StartSync(pump[p], lockOk, FALSE)]
    /\ UNCHANGED <<tasks, posting, db, events, nextId, tx, signal, kv, oplog, txlog, seen, effected,
                   drained, reports>>

\* case <-pollingTicker (sync.go:294-298)
PumpTick(p, lockOk) ==
    /\ pump[p].pc = "idle"
    /\ pump' = [pump EXCEPT ![p] =
                   IF pump[p].recentlySynced
                   THEN [pump[p] EXCEPT !.recentlySynced = FALSE]
                   ELSE StartSync(pump[p], lockOk, FALSE)]
    /\ UNCHANGED <<tasks, posting, db, events, nextId, tx, signal, kv, oplog, txlog, seen, effected,
                   drained, reports>>

\* the signal case leaving recentlySynced as it was
PumpSignalNoDebounce(p, lockOk) ==
    /\ pump[p].pc = "idle"
    /\ signal > 0
    /\ signal' = signal - 1
    /\ pump' = [pump EXCEPT ![p] = StartSync(pump[p], lockOk, pump[p].recentlySynced)]
    /\ UNCHANGED <<tasks, posting, db, events, nextId, tx, kv, oplog, txlog, seen, effected,
                   drained, reports>>

\* case <-committed (sync.go:299-300)
PumpSignal(p, lockOk) ==
    /\ pump[p].pc = "idle"
    /\ signal > 0
    /\ signal' = signal - 1
    /\ pump' = [pump EXCEPT ![p] = StartSync(pump[p], lockOk, TRUE)]
    /\ UNCHANGED <<tasks, posting, db, events, nextId, tx, kv, oplog, txlog, seen, effected,
                   drained, reports>>

\* Sync: listEvents and the loop entry (sync.go:315-320)
PumpList(p, ok) ==
    /\ pump[p].pc = "list"
    /\ pump' = [pump EXCEPT ![p] =
                   IF ok /\ listEvents # <<>>
                   THEN [pump[p] EXCEPT !.pc = "apply", !.batch = listEvents, !.i = 1]
                   ELSE [pump[p] EXCEPT !.pc = "return"]]
    /\ drained' = (ok /\ listEvents = <<>>)
    /\ UNCHANGED <<tasks, posting, db, events, nextId, tx, signal, kv, oplog, txlog, seen, effected,
                   reports>>

\* syncEvent up to the sync-backend calls for the current event of the batch
PumpApply(p, F) ==
    /\ pump[p].pc = "apply"
    /\ LET e == pump[p].batch[pump[p].i]
           res == syncApply(e, F)
       IN /\ kv' = res.kv
          /\ effected' = IF res.done THEN effected \cup {e.id} ELSE effected
          /\ pump' = [pump EXCEPT ![p] =
                   [pump[p] EXCEPT !.pc = IF res.err THEN "return" ELSE "finish",
                                   !.wrote = IF res.wrote THEN Append(@, e.id) ELSE @,
                                   !.failed = IF res.err THEN e.id ELSE @]]
    /\ UNCHANGED <<tasks, posting, db, events, nextId, tx, signal, oplog, txlog, seen,
                   drained, reports>>

\* syncEvent: tx.Delete of the event row and tx.Commit (sync.go:248-261),
\* then the next event of the batch (sync.go:320-326)
PumpFinish(p, ok) ==
    /\ pump[p].pc = "finish"
    /\ LET e == pump[p].batch[pump[p].i]
           gone == {f \in events : f.id = e.id}
           last == pump[p].i = Len(pump[p].batch)
       IN IF ok
          THEN /\ events' = events \ gone
               /\ pump' = [pump EXCEPT ![p] =
                     [pump[p] EXCEPT !.pc = IF last THEN "return" ELSE "apply",
                                     !.i = @ + 1,
                                     !.dropped = @ \cup {f.id : f \in gone}]]
          ELSE /\ pump' = [pump EXCEPT ![p] = [pump[p] EXCEPT !.pc = "return", !.failed = e.id]]
               /\ UNCHANGED events
    /\ UNCHANGED <<tasks, posting, db, nextId, tx, signal, kv, oplog, txlog, seen, effected,
                   drained, reports>>

\* Sync returns to the loop of startSyncProcess (sync.go:292-304); its
\* error is not looked at
PumpReturn(p) ==
    /\ pump[p].pc = "return"
    /\ pump' = [pump EXCEPT ![p] = [IdlePump EXCEPT !.recentlySynced = pump[p].recentlySynced]]
    /\ UNCHANGED <<tasks, posting, db, events, nextId, tx, signal, kv, oplog, txlog, seen, effected,
                   drained, reports>>

(***************************************************************************)
(* The state and monitoring reconcilers.                                  *)
(***************************************************************************)
\* A field of the payload of a watch event (response.Data[name]): absent, a
\* JSON string, or a JSON number.  A number is held in halves, so that 3
\* stands for 1.5.
Field(kind, str, num) == [kind |-> kind, str |-> str, num |-> num]

NoField == Field("absent", "", 0)

NumberFields == {Field("number", "", h) : h \in -2..(2 * MaxPayloadVersion + 1)}

StringFields == {Field("string", x, 0) : x \in {"active", "down"}}

VersionFields == NumberFields \cup {NoField, Field("string", "active", 0)}

\* payloads that differ in their version field
VersionPayloads ==
    [version : VersionFields, state : {Field("string", "active", 0)}, error : {NoField}]

\* payloads that differ in their state and error fields
StatePayloads ==
    [version : {Field("number", "", 2 * MaxPayloadVersion)},
     state : {NoField, Field("string", "active", 0), Field("number", "", 2)},
     error : {NoField, Field("string", "down", 0)}]

Payloads == VersionPayloads \cup StatePayloads

\* int64(f) of a float64 held in halves: truncation toward zero
Int64(h) == IF h >= 0 THEN h \div 2 ELSE -((-h) \div 2)

\* environmentManager.GetEnvironment(curSchema.ID)
HaveEnvironment(r) == r = "net"

\* The calls of a reconciler that may return an error, by the step of the
\* goroutine that makes them.
ReadFaults == {"none", "begin", "isolation", "fetch", "stateFetch"}

PreFaults == {"none", "auth", "pre"}

WriteFaults == {"none", "stateUpdate"}

CommitFaults == {"none", "post", "commit"}

\* what a reconciler makes of the record it read: whether it returns an
\* error, the record it holds, and how it goes on ("built": on to the hooks
\* and the write)
Outcome(err, row, how) == [err |-> err, row |-> row, how |-> how]

\* StateUpdate without the test for an out-of-order report
StateUpdateNoGate(r, data, fault) ==
    LET resourceState == db[r]
        stateVersion == Int64(data.version.num)
        s1 == [resourceState EXCEPT !.state_version = stateVersion]
        s2 == IF data.error.kind = "string" THEN [s1 EXCEPT !.error = data.error.str] ELSE s1
        s3 == IF data.state.kind = "string" THEN [s2 EXCEPT !.state = data.state.str] ELSE s2
    IN IF ~StateVersioning(r) THEN Outcome(FALSE, resourceState, "unexpected")
       ELSE IF fault # "none" \/ ~resourceState.exists
       THEN Outcome(TRUE, resourceState, "error")
       ELSE IF resourceState.state_version = resourceState.config_version
       THEN Outcome(FALSE, resourceState, "caughtup")
       ELSE IF data.version.kind # "number" THEN Outcome(TRUE, resourceState, "error")
       ELSE Outcome(FALSE, s3, "built")

\* StateUpdate refusing a payload whose state is not a string
StateUpdateRejectsState(r, data, fault) ==
    LET resourceState == db[r]
        stateVersion == Int64(data.version.num)
        s1 == [resourceState EXCEPT !.state_version = stateVersion]
        s2 == IF data.error.kind = "string" THEN [s1 EXCEPT !.error = data.error.str] ELSE s1
        s3 == IF data.state.kind = "string" THEN [s2 EXCEPT !.state = data.state.str] ELSE s2
    IN IF ~StateVersioning(r) THEN Outcome(FALSE, resourceState, "unexpected")
       ELSE IF fault # "none" \/ ~resourceState.exists
       THEN Outcome(TRUE, resourceState, "error")
       ELSE IF resourceState.state_version = resourceState.config_version
       THEN Outcome(FALSE, resourceState, "caughtup")
       ELSE IF data.version.kind # "number" \/ data.state.kind # "string"
       THEN Outcome(TRUE, resourceState, "error")
       ELSE IF s1.state_version < resourceState.state_version
       THEN Outcome(FALSE, resourceState, "stale")
       ELSE Outcome(FALSE, s3, "built")

\* StateUpdate from its start to the record it builds (sync.go:330-375), for
\* a report on the state key of resource r with payload data, as a function
\* of the record it reads; fault names the call among Begin,
\* SetIsolationLevel, Fetch and StateFetch that fails.  The function either
\* returns here or goes on with the record built.
StateUpdate(r, data, fault) ==
    LET resourceState == db[r]
        stateVersion == Int64(data.version.num)
        s1 == [resourceState EXCEPT !.state_version = stateVersion]
        s2 == IF data.error.kind = "string" THEN [s1 EXCEPT !.error = data.error.str] ELSE s1
        s3 == IF data.state.kind = "string" THEN [s2 EXCEPT !.state = data.state.str] ELSE s2
    IN IF ~StateVersioning(r) THEN Outcome(FALSE, resourceState, "unexpected")
       ELSE IF fault # "none" \/ ~resourceState.exists
       THEN Outcome(TRUE, resourceState, "error")
       ELSE IF resourceState.state_version = resourceState.config_version
       THEN Outcome(FALSE, resourceState, "caughtup")
       ELSE IF data.version.kind # "number" THEN Outcome(TRUE, resourceState, "error")
       ELSE IF s1.state_version < resourceState.state_version
       THEN Outcome(FALSE, resourceState, "stale")
       ELSE Outcome(FALSE, s3, "built")

\* the number of reports of one kind handled so far
Handled(kind) == Cardinality({i \in 1..Len(reports) : reports[i].kind = kind})

\* payloads of monitoring reports: {"version": ..., "monitoring": ...}
MonitoringPayloads ==
    [version : {NoField} \cup {Field("number", "", h) : h \in 2..4},
     monitoring : {NoField, Field("string", "ok", 0), Field("number", "", 2)}]

\* MonitoringUpdate without the test that the state has converged
MonitoringUpdateNoConverge(r, data, fault) ==
    LET resourceState == db[r]
        s1 == [resourceState EXCEPT !.monitoring = data.monitoring.str]
    IN IF ~StateVersioning(r) THEN Outcome(FALSE, resourceState, "unexpected")
       ELSE IF fault # "none" \/ ~resourceState.exists
       THEN Outcome(TRUE, resourceState, "error")
       ELSE IF data.version.kind # "number" THEN Outcome(TRUE, resourceState, "error")
       ELSE IF resourceState.config_version # Int64(data.version.num)
       THEN Outcome(FALSE, resourceState, "mismatch")
       ELSE IF data.monitoring.kind # "string" THEN Outcome(TRUE, resourceState, "error")
       ELSE Outcome(FALSE, s1, "built")

\* MonitoringUpdate from its start to the record it builds
\* (sync.go:415-459), for a report on the monitoring key of resource r with
\* payload data; fault names the call among Begin, SetIsolationLevel, Fetch
\* and StateFetch that fails.
MonitoringUpdate(r, data, fault) ==
    LET resourceState == db[r]
        s1 == [resourceState EXCEPT !.monitoring = data.monitoring.str]
    IN IF ~StateVersioning(r) THEN Outcome(FALSE, resourceState, "unexpected")
       ELSE IF fault # "none" \/ ~resourceState.exists
       THEN Outcome(TRUE, resourceState, "error")
       ELSE IF resourceState.config_version # resourceState.state_version
       THEN Outcome(FALSE, resourceState, "unconverged")
       ELSE IF data.version.kind # "number" THEN Outcome(TRUE, resourceState, "error")
       ELSE IF resourceState.config_version # Int64(data.version.num)
       THEN Outcome(FALSE, resourceState, "mismatch")
       ELSE IF data.monitoring.kind # "string" THEN Outcome(TRUE, resourceState, "error")
       ELSE Outcome(FALSE, s1, "built")

\* A goroutine started by the consumer of the state watch or of the
\* monitoring watch, one per report and not waited for (sync.go:526-533,
\* 561-568), runs StateUpdate or MonitoringUpdate in a transaction of its
\* own.  stage is the place of the goroutine: "pre" before the calls of
\* sync.go:377-397 / 461-473, "write" before tx.StateUpdate, "post" after
\* it; old is the state_version it read, row the record it built, calls the
\* hooks, the write and the commit it has called so far.
IdleTask ==
    [stage |-> "idle", kind |-> "state", res |-> "net", old |-> 0, row |-> NoRow,
     calls |-> <<>>]

\* the reports of one kind being reconciled
InFlight(kind) ==
    Cardinality({g \in Tasks : tasks[g].stage # "idle" /\ tasks[g].kind = kind})

\* history entry of a report: how it ended, the state_version of the record
\* it ended with (the one built if it was applied, the one read otherwise)
\* and the hooks, the write and the commit it called
ReportEntry(kind, r, how, version, calls) ==
    [kind |-> kind, res |-> r, how |-> how, version |-> version, calls |-> calls]

\* The reconciler of goroutine g returns; the consumer logs the error, if
\* any (sync.go:528-532, 563-567).
Return(g, kind, r, how, version, calls) ==
    /\ reports' = Append(reports, ReportEntry(kind, r, how, version, calls))
    /\ tasks' = [tasks EXCEPT ![g] = IdleTask]

\* The reconciler of goroutine g from Begin to the record it builds
\* (sync.go:341-378, 426-462): Fetch and StateFetch read the committed
\* record, out is what the reconciler makes of it.  A report the reconciler
\* has no use for ends here; otherwise the goroutine holds the record it
\* built and goes on to the hooks, if an environment is registered, or to
\* the write.
ReportRead(g, kind, r, out) ==
    /\ tasks[g].stage = "idle"
    /\ IF out.how = "built"
       THEN /\ tasks' = [tasks EXCEPT ![g] =
                            [stage |-> IF HaveEnvironment(r) THEN "pre" ELSE "write",
                             kind |-> kind, res |-> r, old |-> db[r].state_version,
                             row |-> out.row, calls |-> <<>>]]
            /\ UNCHANGED reports
       ELSE Return(g, kind, r, out.how, out.row.state_version, <<>>)
    /\ UNCHANGED <<db, posting, events, nextId, tx, signal, kv, pump, oplog, txlog, seen,
                   effected, drained>>

\* A report taken from the state watch (sync.go:526-528), up to the record
\* StateUpdate builds
StateReportRead(g, r, data, fault) ==
    /\ Handled("state") + InFlight("state") < MaxReports
    /\ fault \in ReadFaults
    /\ ReportRead(g, "state", r, StateUpdate(r, data, fault))

\* A report taken from the monitoring watch (sync.go:561-563), up to the
\* record MonitoringUpdate builds
MonitoringReportRead(g, r, data, fault) ==
    /\ Handled("monitoring") + InFlight("monitoring") < MaxMonitorings
    /\ fault \in ReadFaults
    /\ ReportRead(g, "monitoring", r, MonitoringUpdate(r, data, fault))

\* The reconciler of goroutine g with an environment registered, before the
\* write (sync.go:381-398, 469-473): StateUpdate asks for the service
\* authorization, both run their pre hook; an error of either call is
\* returned.
ReportPre(g, fault) ==
    /\ tasks[g].stage = "pre"
    /\ fault \in PreFaults
    /\ fault = "auth" => tasks[g].kind = "state"
    /\ IF fault = "none"
       THEN /\ tasks' = [tasks EXCEPT ![g].stage = "write", ![g].calls = Append(@, "pre")]
            /\ UNCHANGED reports
       ELSE Return(g, tasks[g].kind, tasks[g].res, "error", tasks[g].old,
                   IF fault = "pre" THEN <<"pre">> ELSE <<>>)
    /\ UNCHANGED <<db, posting, events, nextId, tx, signal, kv, pump, oplog, txlog, seen,
                   effected, drained>>

\* Transaction.StateUpdate: the state columns of row become those of rec
WithState(row, rec) ==
    [row EXCEPT !.state_version = rec.state_version, !.state = rec.state,
                !.error = rec.error, !.monitoring = rec.monitoring]

\* The reconciler of goroutine g calls tx.StateUpdate with the record it
\* built (sync.go:400-403, 475-478).  The write waits for a transaction
\* that holds the row and holds it from then on; an error is returned.
ReportWrite(g, fault) ==
    /\ tasks[g].stage = "write"
    /\ fault \in WriteFaults
    /\ IF fault = "none"
       THEN /\ ~Held(g, tasks[g].res)
            /\ tasks' = [tasks EXCEPT ![g].stage = "post",
                                      ![g].calls = Append(@, "StateUpdate")]
            /\ UNCHANGED reports
       ELSE Return(g, tasks[g].kind, tasks[g].res, "error", tasks[g].old,
                   Append(tasks[g].calls, "StateUpdate"))
    /\ UNCHANGED <<db, posting, events, nextId, tx, signal, kv, pump, oplog, txlog, seen,
                   effected, drained>>

\* ReportCommit committing the state record although the post hook failed
ReportCommitKeepsOnPostError(g, fault) ==
    /\ tasks[g].stage = "post"
    /\ fault \in CommitFaults
    /\ fault = "post" => HaveEnvironment(tasks[g].res)
    /\ LET r == tasks[g].res
           after == IF HaveEnvironment(r) THEN <<"post">> ELSE <<>>
           written == IF db[r].exists THEN [db EXCEPT ![r] = WithState(db[r], tasks[g].row)]
                      ELSE db
       IN IF fault = "none"
          THEN /\ db' = written
               /\ Return(g, tasks[g].kind, r, "applied", tasks[g].row.state_version,
                         tasks[g].calls \o after \o <<"Commit">>)
          ELSE /\ db' = IF fault = "post" THEN written ELSE db
               /\ Return(g, tasks[g].kind, r, "error", tasks[g].old,
                         tasks[g].calls \o after \o <<"Commit">>)
    /\ UNCHANGED <<posting, events, nextId, tx, signal, kv, pump, oplog, txlog, seen, effected,
                   drained>>

\* ReportCommit running the post hook after the commit
ReportCommitPostLast(g, fault) ==
    /\ tasks[g].stage = "post"
    /\ fault \in CommitFaults
    /\ fault = "post" => HaveEnvironment(tasks[g].res)
    /\ LET r == tasks[g].res
           after == IF HaveEnvironment(r) THEN <<"post">> ELSE <<>>
           written == IF db[r].exists THEN [db EXCEPT ![r] = WithState(db[r], tasks[g].row)]
                      ELSE db
       IN IF fault = "none"
          THEN /\ db' = written
               /\ Return(g, tasks[g].kind, r, "applied", tasks[g].row.state_version,
                         tasks[g].calls \o <<"Commit">> \o after)
          ELSE /\ db' = IF fault = "post" THEN written ELSE db
               /\ Return(g, tasks[g].kind, r, "error", tasks[g].old,
                         tasks[g].calls \o <<"Commit">>
                            \o (IF fault = "post" THEN <<"post">> ELSE <<>>))
    /\ UNCHANGED <<posting, events, nextId, tx, signal, kv, pump, oplog, txlog, seen, effected,
                   drained>>

\* The reconciler of goroutine g from the post hook to the end
\* (sync.go:405-411, 480-486): the post hook runs if an environment is
\* registered, then the transaction commits and the record written becomes
\* the committed one, whatever was committed since the goroutine read.  An
\* error of the hook or of Commit is returned and the deferred Close
\* (sync.go:345, 430) discards the write.
ReportCommit(g, fault) ==
    /\ tasks[g].stage = "post"
    /\ fault \in CommitFaults
    /\ fault = "post" => HaveEnvironment(tasks[g].res)
    /\ LET r == tasks[g].res
           after == IF HaveEnvironment(r) THEN <<"post">> ELSE <<>>
           written == IF db[r].exists THEN [db EXCEPT ![r] = WithState(db[r], tasks[g].row)]
                      ELSE db
       IN IF fault = "none"
          THEN /\ db' = written
               /\ Return(g, tasks[g].kind, r, "applied", tasks[g].row.state_version,
                         tasks[g].calls \o after \o <<"Commit">>)
          ELSE /\ db' = db
               /\ Return(g, tasks[g].kind, r, "error", tasks[g].old,
                         tasks[g].calls \o after
                            \o (IF fault = "commit" THEN <<"Commit">> ELSE <<>>))
    /\ UNCHANGED <<posting, events, nextId, tx, signal, kv, pump, oplog, txlog, seen, effected,
                   drained>>

(***************************************************************************)
(* Vocabulary of the properties.                                           *)
(***************************************************************************)
Ops == 1..Len(oplog)

\* the event rows of wrapper call k that ever became visible in the outbox
RowsOf(k) == {e \in seen : e.op = k}

\* the event rows of wrapper call k, visible or still pending in a transaction
AllRowsOf(k) == RowsOf(k) \cup {e \in UNION {Range(tx[t].pending) : t \in Txs} : e.op = k}

AllRows == seen \cup UNION {Range(tx[t].pending) : t \in Txs}

\* ids of the rows the pump deleted from the outbox
Removed == {e.id : e \in seen} \ {e.id : e \in events}

(***************************************************************************)
(* Specifications.                                                         *)
(***************************************************************************)
Init ==
    /\ db = [r \in Resources |-> NoRow]
    /\ events = {}
    /\ nextId = 1
    /\ tx = [t \in Txs |-> NoTx]
    /\ signal = 0
    /\ posting = 0
    /\ kv = [k \in Keys |-> Absent]
    /\ pump = [p \in Pumps |-> IdlePump]
    /\ oplog = <<>>
    /\ txlog = <<>>
    /\ seen = {}
    /\ effected = {}
    /\ drained = FALSE
    /\ reports = <<>>
    /\ tasks = [g \in Tasks |-> IdleTask]

\* An event table that holds a row written by another writer, with a type
\* this pump does not know.
ForeignRow == [id |-> 1, type |-> "other", path |-> Path("plain"), version |-> 0,
               body |-> JSONString("plain", NoRow), op |-> 0]

InitForeign ==
    /\ db = [r \in Resources |-> NoRow]
    /\ events \in {{}, {ForeignRow}}
    /\ nextId = IF events = {} THEN 1 ELSE 2
    /\ tx = [t \in Txs |-> NoTx]
    /\ signal = 0
    /\ posting = 0
    /\ kv = [k \in Keys |-> Absent]
    /\ pump = [p \in Pumps |-> IdlePump]
    /\ oplog = <<>>
    /\ txlog = <<>>
    /\ seen = events
    /\ effected = {}
    /\ drained = FALSE
    /\ reports = <<>>
    /\ tasks = [g \in Tasks |-> IdleTask]

\* the calls of the API handlers on the resources RS, with the faults in FS
WriterNext(RS, FS) ==
    \/ \E t \in Txs : Begin(t)
    \/ \E t \in Txs, r \in RS, fault \in FS : CallCreate(t, r, fault)
    \/ \E t \in Txs, r \in RS, fault \in FS : CallUpdate(t, r, fault)
    \/ \E t \in Txs, r \in RS, fault \in FS : CallDelete(t, r, fault)
    \/ \E t \in Txs, ok \in BOOLEAN : CanCommit(t) /\ Commit(t, ok)
    \/ CommitPost
    \/ \E t \in Txs : Close(t)

\* the pump p; LS: the results of Lock, OKS: the results of the database
\* calls, FSS: the sets of failing sync-backend calls
PumpNext(p, LS, OKS, FSS) ==
    \/ \E lockOk \in LS : PumpTick(p, lockOk)
    \/ \E lockOk \in LS : PumpSignal(p, lockOk)
    \/ \E ok \in OKS : PumpList(p, ok)
    \/ \E F \in FSS : PumpApply(p, F)
    \/ \E ok \in OKS : PumpFinish(p, ok)
    \/ PumpReturn(p)

\* One server: writers and the pump, the cluster lock granted.
Next == WriterNext(Resources, Faults) \/ PumpNext("p1", {TRUE}, BOOLEAN, SUBSET SyncFaults)

Spec == Init /\ [][Next]_vars

\* One server whose Lock call may return an error.
NextLock == WriterNext(Resources, {"none"}) \/ PumpNext("p1", BOOLEAN, BOOLEAN, SUBSET SyncFaults)

SpecLock == Init /\ [][NextLock]_vars

\* One server started on an event table that may hold a foreign row.
NextForeign == PumpNext("p1", {TRUE}, BOOLEAN, SUBSET SyncFaults) \/ WriterNext(Resources, {"none"})

SpecForeign == InitForeign /\ [][NextForeign]_vars

\* Two pumps, each believing it holds the cluster lock, drain one outbox; the
\* writers work on two of the resources and no call fails.
NextTwoPumps ==
    \/ WriterNext({"net", "plain"}, {"none"})
    \/ \E p \in Pumps : PumpNext(p, {TRUE}, {TRUE}, {{}})

SpecTwoPumps == Init /\ [][NextTwoPumps]_vars

\* the reports taken from the watches so far
Taken == Len(reports) + InFlight("state") + InFlight("monitoring")

\* no report is being reconciled
OneAfterAnother == \A g \in Tasks : tasks[g].stage = "idle"

\* the steps of the goroutines after the read; PF, WF, CF: the faults of the
\* calls before the write, of the write, and of the post hook and the commit
ReconcilerNext(PF, WF, CF) ==
    \/ \E g \in Tasks, fault \in PF : ReportPre(g, fault)
    \/ \E g \in Tasks, fault \in WF : ReportWrite(g, fault)
    \/ \E g \in Tasks, fault \in CF : ReportCommit(g, fault)

\* Config mutations and state reports; a report is taken up when the one
\* before it has been reconciled.
NextState ==
    \/ WriterNext({"net", "quiet", "plain"}, {"none"})
    \/ \E r \in {"net", "quiet", "plain"}, data \in Payloads :
            /\ Len(reports) < MaxReportsState
            /\ OneAfterAnother
            /\ StateReportRead("g1", r, data, "none")
    \/ ReconcilerNext(PreFaults, WriteFaults, CommitFaults)

SpecState == Init /\ [][NextState]_vars

\* state reports of the documented form with the versions 1 and 2
HookStatePayloads ==
    {d \in VersionPayloads : d.version.kind = "number" /\ d.version.num \in {2, 4}}

\* Config mutations of the versioned resource, state reports and monitoring
\* reports, reconciled by concurrent goroutines; the post hook may fail.
NextMonitoring ==
    \/ \E t \in Txs : Begin(t)
    \/ \E t \in Txs : Len(oplog) < MaxOpsMonitoring /\ CallCreate(t, "net", "none")
    \/ \E t \in Txs : Len(oplog) < MaxOpsMonitoring /\ CallUpdate(t, "net", "none")
    \/ \E t \in Txs : Len(oplog) < MaxOpsMonitoring /\ CallDelete(t, "net", "none")
    \/ \E t \in Txs, ok \in BOOLEAN : CanCommit(t) /\ Commit(t, ok)
    \/ CommitPost
    \/ \E t \in Txs : Close(t)
    \/ \E g \in Tasks, data \in HookStatePayloads :
            Taken < MaxReports /\ StateReportRead(g, "net", data, "none")
    \/ \E g \in Tasks, data \in MonitoringPayloads :
            Taken < MaxReports /\ MonitoringReportRead(g, "net", data, "none")
    \/ ReconcilerNext({"none"}, {"none"}, {"none", "post"})

SpecMonitoring == Init /\ [][NextMonitoring]_vars

\* State and monitoring reports of the documented form on the resource with
\* an extension environment, whose hooks may fail.
HookMonitoringPayloads ==
    {d \in MonitoringPayloads : d.version.kind = "number" /\ d.version.num \in {2, 4}
                                  /\ d.monitoring.kind = "string"}

NextHooks ==
    \/ \E t \in Txs : Begin(t)
    \/ \E t \in Txs : Len(oplog) < MaxOpsMonitoring /\ CallCreate(t, "net", "none")
    \/ \E t \in Txs : Len(oplog) < MaxOpsMonitoring /\ CallUpdate(t, "net", "none")
    \/ \E t \in Txs : Len(oplog) < MaxOpsMonitoring /\ CallDelete(t, "net", "none")
    \/ \E t \in Txs, ok \in BOOLEAN : CanCommit(t) /\ Commit(t, ok)
    \/ CommitPost
    \/ \E t \in Txs : Close(t)
    \/ \E g \in Tasks, data \in HookStatePayloads :
            StateReportRead(g, "net", data, "none")
    \/ \E g \in Tasks, data \in HookMonitoringPayloads :
            MonitoringReportRead(g, "net", data, "none")
    \/ ReconcilerNext({"none", "pre"}, {"none"}, {"none", "post"})

SpecHooks == Init /\ [][NextHooks]_vars

\* State reports with any payload on the resource with an extension
\* environment, no call failing.
NextMalformed ==
    \/ \E t \in Txs : Begin(t)
    \/ \E t \in Txs : Len(oplog) < MaxOpsMonitoring /\ CallCreate(t, "net", "none")
    \/ \E t \in Txs : Len(oplog) < MaxOpsMonitoring /\ CallUpdate(t, "net", "none")
    \/ \E t \in Txs : Len(oplog) < MaxOpsMonitoring /\ CallDelete(t, "net", "none")
    \/ \E t \in Txs, ok \in BOOLEAN : CanCommit(t) /\ Commit(t, ok)
    \/ CommitPost
    \/ \E t \in Txs : Close(t)
    \/ \E g \in Tasks, data \in Payloads : StateReportRead(g, "net", data, "none")
    \/ ReconcilerNext({"none"}, {"none"}, {"none"})

SpecMalformed == Init /\ [][NextMalformed]_vars

\* reports of the documented form: a whole positive version, a state string
TaskPayloads ==
    {d \in VersionPayloads : /\ d.version.kind = "number"
                             /\ d.version.num > 0
                             /\ d.version.num % 2 = 0}

\* Two state reports on one resource handled by concurrent tasks, with the
\* config mutations that create and update the resource.
NextTasks ==
    \/ \E t \in Txs : Begin(t)
    \/ \E t \in Txs : Len(oplog) < MaxOpsMonitoring /\ CallCreate(t, "net", "none")
    \/ \E t \in Txs : Len(oplog) < MaxOpsMonitoring /\ CallUpdate(t, "net", "none")
    \/ \E t \in Txs, ok \in BOOLEAN : CanCommit(t) /\ Commit(t, ok)
    \/ CommitPost
    \/ \E t \in Txs : Close(t)
    \/ \E g \in Tasks, data \in TaskPayloads :
            Len(reports) + InFlight("state") < MaxTasks /\ StateReportRead(g, "net", data, "none")
    \/ ReconcilerNext({"none"}, {"none"}, {"none"})

SpecTasks == Init /\ [][NextTasks]_vars

\* One server whose pump keeps running (the poll ticker fires for ever) and
\* whose database and sync backend never fail; the writers work on the
\* resource whose template does not render and on an untemplated one.
NextPoison ==
    \/ WriterNext({"mfail", "plain"}, {"none"})
    \/ PumpNext("p1", {TRUE}, {TRUE}, {{}})

SpecPoison ==
    Init /\ [][NextPoison]_vars /\ WF_vars(PumpNext("p1", {TRUE}, {TRUE}, {{}}))

\* One server whose pump keeps running, with the lock granted and no
\* failure of the database or the sync backend; the writers work on the
\* resources whose keys render.
NextLive ==
    \/ WriterNext({"net", "plain"}, {"none"})
    \/ PumpNext("p1", {TRUE}, {TRUE}, {{}})

SpecLive ==
    Init /\ [][NextLive]_vars /\ WF_vars(PumpNext("p1", {TRUE}, {TRUE}, {{}}))

(***************************************************************************)
(* Properties.                                                             *)
(***************************************************************************)

\* C1: on a schema without nosync, every successful Create, Update or Delete
\* of a committed transaction has exactly one event row in the outbox, and a
\* call of a transaction that has not committed has none.
OutboxExactlyOnce ==
    \A k \in Ops :
        (oplog[k].ok /\ ~NoSync(oplog[k].res)) =>
            IF txlog[oplog[k].txn] = "committed"
            THEN Cardinality(RowsOf(k)) = 1
            ELSE RowsOf(k) = {}

\* C1 witness: a committed transaction with two successful calls on synced
\* schemas, and a rolled-back transaction with a successful call.
OutboxExactlyOnceWitness ==
    /\ \E k, l \in Ops : /\ k # l /\ oplog[k].ok /\ oplog[l].ok
                          /\ oplog[k].txn = oplog[l].txn
                          /\ ~NoSync(oplog[k].res) /\ ~NoSync(oplog[l].res)
                          /\ txlog[oplog[k].txn] = "committed"
    /\ \E k \in Ops : oplog[k].ok /\ ~NoSync(oplog[k].res) /\ txlog[oplog[k].txn] = "aborted"

\* the calls transaction t made so far
CallsOf(t) == {k \in Ops : oplog[k].txn = tx[t].txn}

OnlyNoSync(t) == \A k \in CallsOf(t) : NoSync(oplog[k].res)

\* C2: a Create, Update or Delete on a nosync schema performs the mutation
\* and appends no event row; a transaction that touched only nosync schemas
\* has the event flag unset, and when it ends (commit or close) the commit
\* signal, the outbox and the sync backend are as they were.
NoSyncSilent ==
    [][ /\ \A k \in Ops :
            (oplog[k].ok /\ NoSync(oplog[k].res)) =>
                /\ AllRowsOf(k) = {}
                /\ oplog[k].after # oplog[k].before
                /\ oplog[k].after.exists = (oplog[k].type # "delete")
        /\ \A t \in Txs :
            (tx[t].open /\ OnlyNoSync(t)) =>
                /\ ~tx[t].eventLogged
                /\ tx[t].pending = <<>>
                /\ ~tx'[t].open => /\ signal' = signal /\ posting' = posting
                                    /\ events' = events /\ kv' = kv
      ]_vars

\* C2 witness: a transaction that created and updated the nosync resource
\* has committed; nothing reached the outbox, the signal or the sync backend.
NoSyncSilentWitness ==
    /\ \E k, l \in Ops : /\ k # l /\ oplog[k].ok /\ oplog[l].ok
                          /\ oplog[k].res = "quiet" /\ oplog[l].res = "quiet"
                          /\ txlog[oplog[k].txn] = "committed"
                          /\ txlog[oplog[l].txn] = "committed"
    /\ db["quiet"].exists
    /\ db["quiet"].config_version = 2
    /\ \A k \in Ops : oplog[k].res = "quiet"
    /\ signal = 0 /\ posting = 0 /\ seen = {} /\ \A key \in Keys : kv[key] = Absent

\* C3: the version of an event row is 1 for a create, 0 for an update or a
\* delete on a schema without state versioning, the config_version read
\* after the mutation for an update on a versioned schema, and the
\* config_version read before the mutation plus one for a delete on a
\* versioned schema, whose body is the resource as it was before the delete.
EventVersionRule ==
    \A e \in AllRows :
        e.op \in Ops =>
            LET o == oplog[e.op]
            IN /\ e.type = o.type
               /\ e.path = Path(o.res)
               /\ e.type = "create" => e.version = 1
               /\ (e.type \in {"update", "delete"} /\ ~StateVersioning(o.res)) => e.version = 0
               /\ (e.type = "update" /\ StateVersioning(o.res)) =>
                      /\ e.version = o.after.config_version
                      /\ e.body = JSONString(o.res, o.after)
               /\ (e.type = "delete" /\ StateVersioning(o.res)) =>
                      /\ e.version = o.before.config_version + 1
                      /\ e.body = JSONString(o.res, o.before)
                      /\ ~o.after.exists
               /\ (e.type = "delete") => e.body = JSONString(o.res, o.before)

\* C3 witness: a versioned resource was created, updated and deleted; the
\* delete event carries version 3 and the update event version 2.
EventVersionRuleWitness ==
    /\ \E e \in seen : e.type = "delete" /\ e.path = Path("net") /\ e.version = 3
                        /\ e.body.val = 2
    /\ \E e \in seen : e.type = "update" /\ e.path = Path("net") /\ e.version = 2
    /\ \E e \in seen : e.type = "create" /\ e.path = Path("net") /\ e.version = 1

\* the config key of resource r as it is now in the database
ConfigKey(r) == generatePath(Path(r), JSONString(r, db[r]))

\* The pump is quiescent: its last listEvents found the outbox empty, it has
\* returned from Sync, and no transaction has committed an event since.
Quiescent == drained /\ \A p \in Pumps : pump[p].pc \in {"idle", "return"}

InSync(r) == kv[ConfigKey(r)].present /\ kv[ConfigKey(r)].version = db[r].config_version

\* C4 as stated: once the pump is quiescent the outbox is empty and every
\* live versioned resource has its config entry at its config_version.
AfterDrainAllVersioned ==
    Quiescent =>
        /\ events = {}
        /\ \A r \in Resources : (db[r].exists /\ StateVersioning(r)) => InSync(r)

\* C4 amended: once the pump is quiescent the outbox is empty and every live
\* versioned resource whose schema does not set nosync has its config entry
\* at its config_version.
AfterDrain ==
    Quiescent =>
        /\ events = {}
        /\ \A r \in Resources :
              (db[r].exists /\ StateVersioning(r) /\ ~NoSync(r)) => InSync(r)

\* C4 witness: the versioned resource was created and updated, the pump has
\* drained both events and is quiescent.
AfterDrainWitness ==
    /\ Quiescent
    /\ db["net"].exists /\ db["net"].config_version = 2
    /\ kv[ConfigKey("net")] = Content(JSONString("net", db["net"]), 2)
    /\ Cardinality(seen) >= 2

\* ids of the events for which pump p, in its current call of Sync, had a
\* sync-backend call succeed or deleted the row
Touched(p) == Range(pump[p].wrote) \cup pump[p].dropped

Ascending(s) == \A a, b \in 1..Len(s) : a < b => s[a] < s[b]

LaterUntouched(p) ==
    \A j \in 1..Len(pump[p].batch) : j > pump[p].i => pump[p].batch[j].id \notin Touched(p)

\* C5 as stated: within one call of Sync the events are applied in ascending
\* id order, and the event whose processing returned an error and all later
\* events of the batch got no sync-backend write and no row deletion.
SyncStopsUntouched ==
    \A p \in Pumps :
        /\ Ascending(pump[p].wrote)
        /\ pump[p].failed # 0 => (pump[p].failed \notin Touched(p) /\ LaterUntouched(p))

\* C5 amended: within one call of Sync the events are applied in ascending
\* id order; the call ends at the first event whose processing returns an
\* error, that event's row is not deleted (a sync-backend write may have been
\* made for it), and every later event of the batch gets no sync-backend
\* write and no row deletion.
SyncOrderStop ==
    \A p \in Pumps :
        /\ Ascending(pump[p].wrote)
        /\ LaterUntouched(p)
        /\ pump[p].failed # 0 =>
              /\ pump[p].pc = "return"
              /\ pump[p].failed = pump[p].batch[pump[p].i].id
              /\ pump[p].failed \notin pump[p].dropped
              /\ \E e \in events : e.id = pump[p].failed

\* C5 witness: a call of Sync over a batch of two events applied and deleted
\* the first, wrote the second to the sync backend and then failed on it.
SyncOrderStopWitness ==
    \E p \in Pumps :
        /\ pump[p].pc = "return"
        /\ Len(pump[p].batch) = 2
        /\ pump[p].failed = pump[p].batch[2].id
        /\ pump[p].wrote = <<pump[p].batch[1].id, pump[p].batch[2].id>>
        /\ pump[p].dropped = {pump[p].batch[1].id}

\* C5 witness of the stop: Sync failed on the first event of a batch of two
\* and returned without touching the second.
SyncStopWitness ==
    \E p \in Pumps :
        /\ pump[p].pc = "return"
        /\ Len(pump[p].batch) = 2
        /\ pump[p].failed = pump[p].batch[1].id
        /\ Touched(p) = {}

KnownTypes == {"create", "update", "delete"}

\* C6 as stated: every row removed from the outbox, whatever its type, had
\* its sync-backend side effect performed successfully before the removal.
RemovedAfterEffectAnyType ==
    \A e \in seen : e.id \in Removed => e.id \in effected

\* C6 amended: every row of type create, update or delete removed from the
\* outbox had its sync-backend side effect (PUT, or DELETE of the config key)
\* performed successfully before the removal, whatever calls failed; a row
\* of any other type is removed without a sync-backend call.
RemovedAfterEffect ==
    /\ \A e \in seen : (e.id \in Removed /\ e.type \in KnownTypes) => e.id \in effected
    /\ \A e \in seen : e.type \notin KnownTypes => e.id \notin effected
    /\ \A p \in Pumps : pump[p].pc = "finish" =>
          LET e == pump[p].batch[pump[p].i]
          IN e.type \in KnownTypes => e.id \in effected

\* C6 witness: a create and a delete event were removed after their
\* sync-backend calls, with a failed attempt in between that left the row.
RemovedAfterEffectWitness ==
    /\ \E e \in seen : e.type = "create" /\ e.id \in Removed /\ e.id \in effected
    /\ \E e \in seen : /\ e.type = "delete" /\ e.id \notin Removed /\ e.id \notin effected
                        /\ \E p \in Pumps : pump[p].failed = e.id
    /\ ForeignRow \in seen /\ ForeignRow.id \in Removed

\* C7: a pump whose Lock call returned an error reads no events and makes no
\* sync-backend call and no row deletion in that iteration.
LockGatesDrain ==
    \A p \in Pumps : ~pump[p].lockOk => (pump[p].batch = <<>> /\ Touched(p) = {})

\* the last committed event of resource r
EventsOf(r) == {e \in seen : e.path = Path(r) /\ e.type \in KnownTypes}

LastEvent(r) == MaxId(EventsOf(r))

AllQuiet ==
    /\ \A p \in Pumps : pump[p].pc = "idle"
    /\ \A t \in Txs : ~tx[t].open
    /\ signal = 0

\* C8: once two pumps draining the same outbox are both quiescent, the
\* outbox is empty and the config key of every resource holds the body and
\* version of the resource's event with the largest id, or is absent if that
\* event is a delete.
TwoPumpsEndState ==
    (AllQuiet /\ events = {}) =>
        \A r \in Resources :
            EventsOf(r) # {} =>
                LET last == LastEvent(r)
                    key == generatePath(last.path, last.body)
                IN IF last.type = "delete"
                   THEN ~kv[key].present
                   ELSE kv[key] = Content(last.body, last.version)

\* C9: with the state reports handled one after another, no step of
\* StateUpdate lowers the state_version of a versioned resource, whatever
\* version the report carries.
StateVersionMonotone ==
    [][(reports' # reports \/ tasks' # tasks) =>
          \A r \in Resources :
              StateVersioning(r) => db'[r].state_version >= db[r].state_version]_vars

\* C9 witness: a report was applied and a later report with a lower version
\* was dropped as out of order, the state_version staying where it was.
StateVersionMonotoneWitness ==
    /\ Len(reports) = 2
    /\ reports[1].res = "net" /\ reports[1].how = "applied"
    /\ reports[2].res = "net" /\ reports[2].how = "stale"
    /\ db["net"].state_version = 2
    /\ db["net"].config_version = 3

\* C10: state_version <= config_version for every versioned resource in
\* every reachable state.
StateNotAhead ==
    \A r \in Resources :
        (StateVersioning(r) /\ db[r].exists) => db[r].state_version <= db[r].config_version

\* the step handles a report of the given kind
LastReport == reports'[Len(reports')]

JustHandled(kind) == Len(reports') > Len(reports) /\ LastReport.kind = kind

\* entry i of the history is a report of the kind on r that ended this way
Logged(i, kind, r, how) ==
    reports[i].kind = kind /\ reports[i].res = r /\ reports[i].how = how

\* goroutine g has read the record and goes on with the record it built
Started(g) == tasks[g].stage = "idle" /\ tasks'[g].stage # "idle"

\* the transaction of goroutine g has ended after its tx.StateUpdate
Finished(g) == tasks[g].stage = "post" /\ tasks'[g].stage = "idle"

\* goroutine g has committed the record it wrote
Applied(g) == Finished(g) /\ LastReport.how = "applied"

\* a report of the kind has ended in the step that read the record
Refused(kind) == JustHandled(kind) /\ tasks' = tasks

\* a reconciler of the kind has read the record in this step
ReadStep(kind) == Refused(kind) \/ \E g \in Tasks : Started(g) /\ tasks'[g].kind = kind

\* the resource of the read step of goroutine g
ReadRes(g) == IF tasks' = tasks THEN LastReport.res ELSE tasks'[g].res

\* the database is changed by the commit of a writer or by the commit of a
\* reconciler that returns no error, and by no other step
OnlyCommitsChange ==
    db' # db => \/ \E t \in Txs : tx[t].open /\ ~tx'[t].open
                \/ \E g \in Tasks : Applied(g)

\* the commit of goroutine g stores the state_version, state and error of
\* the record the goroutine built and leaves the resource's data and
\* config_version alone; the report is logged as applied
StoresBuilt(g) ==
    LET r == tasks[g].res
    IN /\ db'[r].state_version = tasks[g].row.state_version
       /\ db'[r].state = tasks[g].row.state
       /\ db'[r].error = tasks[g].row.error
       /\ db'[r].config_version = db[r].config_version
       /\ db'[r].val = db[r].val
       /\ LastReport.how = "applied"

\* the payload's version is absent, not a number, or a whole number, as the
\* reports of the agents carry it ({"version": <int>, ...})
WholeVersion(data) == data.version.kind = "number" => data.version.num % 2 = 0

\* the versions of the payload and of the state record agree
VersionsEqual(r, data) ==
    /\ data.version.kind = "number"
    /\ data.version.num = 2 * db[r].config_version
    /\ db[r].config_version = db[r].state_version

\* C11: a monitoring report on a live versioned resource is applied if and
\* only if payload.version = config_version = state_version when the record
\* is read: if config_version # state_version, or the payload version is not
\* the config_version, the report ends with the database unchanged and no
\* hook run; if the three agree the reconciler goes on with the record it
\* read and the payload's monitoring string, and its commit makes that
\* string the monitoring field of the resource.  No other step changes the
\* database but the commit of a writer.  The payload version is a whole
\* number or absent.
MonitoringGate ==
    [][/\ ReadStep("monitoring") =>
          \A g \in Tasks, data \in MonitoringPayloads :
             LET r == ReadRes(g)
             IN (/\ StateVersioning(r) /\ db[r].exists /\ WholeVersion(data)
                 /\ MonitoringReportRead(g, r, data, "none")) =>
                    IF VersionsEqual(r, data)
                    THEN data.monitoring.kind = "string" =>
                            /\ Started(g)
                            /\ tasks'[g].row = [db[r] EXCEPT !.monitoring = data.monitoring.str]
                    ELSE /\ Refused("monitoring")
                         /\ db' = db
                         /\ LastReport.how # "applied"
                         /\ LastReport.calls = <<>>
       /\ \A g \in Tasks :
            (Applied(g) /\ tasks[g].kind = "monitoring" /\ db[tasks[g].res].exists) =>
                /\ db'[tasks[g].res].monitoring = tasks[g].row.monitoring
                /\ db'[tasks[g].res].config_version = db[tasks[g].res].config_version
       /\ OnlyCommitsChange
      ]_vars

\* C11 witness: a monitoring report was skipped while state_version was
\* behind, the state caught up, and the replayed report was applied.
MonitoringGateWitness ==
    /\ \E i, j, k \in 1..Len(reports) :
          /\ i < j /\ j < k
          /\ Logged(i, "monitoring", "net", "unconverged")
          /\ Logged(j, "state", "net", "applied")
          /\ Logged(k, "monitoring", "net", "applied")
    /\ db["net"].monitoring = "ok"
    /\ db["net"].config_version = 2 /\ db["net"].state_version = 2

\* what StateUpdate must do with a report it has no use for: no change of
\* the database, no hook, no write, no error
NoAction(r, out) ==
    /\ db' = db
    /\ LastReport.calls = <<>>
    /\ LastReport.how \in {"caughtup", "stale"}
    /\ out.how # "built"
    /\ ~out.err

\* C12: a state report on a live versioned resource that is caught up
\* (state_version = config_version, whatever the payload), or whose payload
\* version, a whole number, is lower than the stored state_version, changes
\* nothing in the database, runs no hook and returns no error.
StaleReportNoAction ==
    [][ReadStep("state") =>
       \A g \in Tasks, data \in Payloads :
          LET r == ReadRes(g)
          IN (StateVersioning(r) /\ db[r].exists /\ StateReportRead(g, r, data, "none")) =>
              ((\/ db[r].state_version = db[r].config_version
                \/ /\ data.version.kind = "number" /\ WholeVersion(data)
                   /\ data.version.num < 2 * db[r].state_version)
               => (Refused("state") /\ NoAction(r, StateUpdate(r, data, "none"))))]_vars

\* C12 witness: one report met the resource caught up and another carried a
\* version below the stored state_version; the record stayed as it was.
StaleReportNoActionWitness ==
    /\ \E i \in 1..Len(reports) :
          Logged(i, "state", "net", "caughtup")
    /\ \E i \in 1..Len(reports) :
          Logged(i, "state", "net", "stale")
    /\ db["net"].exists /\ db["net"].state_version > 0

\* pump p has just made the sync-backend calls of an event
JustApplied(p) == pump[p].pc = "apply" /\ pump'[p].pc # "apply"

\* the key suffix of event e is rendered: its schema has no template, or the
\* template renders from the body
Renders(e) ==
    SyncKeyTemplate(SchemaOf(e.path)) = "none" \/ ~GenerateCustomPath(SchemaOf(e.path), e.body).err

\* C13: for a delete event whose key suffix is rendered, the pump issues
\* three DELETEs in this order: the state-prefixed path, the
\* monitoring-prefixed path, the config key, all three with the same suffix;
\* a failure of the first or second stops nothing, the row deletion follows
\* when the third succeeds; a failure of the third ends the event with an
\* error and its row stays in the outbox.
DeleteThreeKeys ==
    [][\A p \in Pumps : JustApplied(p) =>
         LET e == pump[p].batch[pump[p].i]
         IN (e.type = "delete" /\ Renders(e)) =>
              \A F \in SUBSET SyncFaults :
                 ("begin" \notin F /\ PumpApply(p, F)) =>
                    LET res == syncApply(e, F)
                        config == generatePath(e.path, e.body)
                    IN /\ Len(res.calls) = 3
                       /\ \A n \in 1..3 : res.calls[n].op = "DELETE"
                       /\ res.calls[1].key = Key(statePrefix, config.path)
                       /\ res.calls[2].key = Key(monitoringPrefix, config.path)
                       /\ res.calls[3].key = config
                       /\ config.prefix = configPrefix
                       /\ res.calls[1].ok = ("del1" \notin F)
                       /\ res.calls[2].ok = ("del2" \notin F)
                       /\ res.calls[3].ok = ("del3" \notin F)
                       /\ res.calls[1].ok => ~kv'[res.calls[1].key].present
                       /\ res.calls[2].ok => ~kv'[res.calls[2].key].present
                       /\ IF "del3" \in F
                          THEN /\ pump'[p].pc = "return" /\ pump'[p].failed = e.id
                               /\ \E f \in events' : f.id = e.id
                          ELSE /\ pump'[p].pc = "finish" /\ pump'[p].failed = 0
                               /\ ~kv'[config].present
                               /\ e.id \in effected'
      ]_vars

\* C13 witness: a delete event of the templated resource went through with
\* its config key deleted, and its row was removed from the outbox.
DeleteThreeKeysWitness ==
    \E e \in seen :
        /\ e.type = "delete" /\ e.path = Path("net")
        /\ e.id \in effected /\ e.id \in Removed
        /\ \A x \in Prefixes : ~kv[Key(x, [kind |-> "custom", res |-> "net"])].present

\* C14: when the template of the event's schema does not render from the
\* body, the event is still processed with the raw URL path as key suffix,
\* whatever its type: with no call failing, a create or update PUTs the
\* content at the raw-path config key, a delete DELETEs it, and the pump goes
\* on to delete the event row.
TemplateFallback ==
    [][\A p \in Pumps : JustApplied(p) =>
         LET e == pump[p].batch[pump[p].i]
             raw == Key(configPrefix, e.path)
         IN (e.type \in KnownTypes /\ ~Renders(e) /\ PumpApply(p, {})) =>
               /\ pump'[p].pc = "finish"
               /\ e.id \in effected'
               /\ kv'[raw] = IF e.type = "delete" THEN Absent ELSE Content(e.body, e.version)
      ]_vars

\* an event whose processing fails on every attempt: a delete whose key
\* template does not render
Poison(e) == e.type = "delete" /\ ~Renders(e)

\* the outbox holds event n behind a poisonous event with a smaller id
BehindPoison(n) ==
    \E e \in events : e.id = n /\ ~Poison(e) /\ \E q \in events : Poison(q) /\ q.id < n

\* C15: every event with a larger id than a poisonous event is eventually
\* applied to the sync backend and removed from the outbox.
PoisonDoesNotStall ==
    \A n \in 1..MaxOps :
        BehindPoison(n) ~> (n \in effected /\ \A e \in events : e.id # n)

\* C16: the commit signal holds at most one pending wake-up; neither the
\* commit nor the post that follows it is ever held up by a full signal; the
\* post leaves the signal full (a post to a full signal changes nothing); a
\* Commit has a post to do exactly if its underlying commit succeeded and
\* its transaction emitted an event; nothing else fills the signal.
CommitSignal ==
    [][/\ signal \in 0..SignalCapacity /\ signal' \in 0..SignalCapacity
       /\ \A t \in Txs : (tx[t].open /\ CanCommit(t)) => ENABLED Commit(t, TRUE)
       /\ posting > 0 => ENABLED CommitPost
       /\ CommitPost => signal' = SignalCapacity
       /\ \A t \in Txs, ok \in BOOLEAN :
             Commit(t, ok) =>
                 /\ signal' = signal
                 /\ posting' = IF ok /\ tx[t].pending # <<>> THEN posting + 1 ELSE posting
       /\ signal' > signal => CommitPost
       /\ posting' < posting => CommitPost
      ]_vars

\* C16 witness: two transactions that emitted events have committed while
\* the pump was idle; the signal holds one wake-up.
CommitSignalWitness ==
    /\ signal = SignalCapacity
    /\ posting = 0
    /\ txlog = <<"committed", "committed">>
    /\ \E e, f \in seen : oplog[e.op].txn = 1 /\ oplog[f.op].txn = 2
    /\ events = seen
    /\ \A p \in Pumps : pump[p] = IdlePump

InOutbox(n) == \E e \in events : e.id = n

\* event n is in the batch some pump has read
ReadByPump(n) == \E p \in Pumps : \E j \in 1..Len(pump[p].batch) : pump[p].batch[j].id = n

\* C17: every committed event row is eventually read by an iteration of the
\* pump, whether or not another transaction commits afterwards, the pump
\* running for ever with the lock granted and no call failing.
NoLostWakeup ==
    \A n \in 1..MaxOps : InOutbox(n) ~> ReadByPump(n)

\* C17 witness: a commit landed while the pump was in the middle of a drain:
\* the outbox holds a row the pump has not read, the first row of the batch
\* is already removed, and the signal has been posted again.
NoLostWakeupWitness ==
    \E p \in Pumps :
        /\ pump[p].pc = "apply"
        /\ pump[p].dropped # {}
        /\ \E e \in events : ~ReadByPump(e.id) /\ oplog[e.op].txn = 2
        /\ signal = SignalCapacity

\* pump p has just read its batch
JustListed(p) == pump[p].pc = "list" /\ pump'[p].pc = "apply"

\* pump p has just ended an iteration in which no event failed
JustDrained(p) ==
    /\ pump[p].pc \in {"apply", "finish"}
    /\ pump'[p].pc = "return"
    /\ pump'[p].failed = 0

BatchIds(P) == {P.batch[j].id : j \in 1..Len(P.batch)}

\* C18 as stated: an iteration of the pump reads every row the outbox holds
\* when it reads its batch, whatever their number, and when no event fails
\* none of them is left at its end.
DrainsWholeOutbox ==
    [][\A p \in Pumps :
          /\ JustListed(p) => BatchIds(pump'[p]) = {e.id : e \in events}
          /\ JustDrained(p) => \A e \in events' : e.id \notin BatchIds(pump'[p])
      ]_vars

\* C18 amended: an iteration of the pump reads the rows with the smallest
\* ids, up to eventPollingLimit of them, and when no event fails none of
\* those is left at its end; the rows beyond the first page stay in the
\* outbox until a later iteration.
DrainsFirstPage ==
    [][\A p \in Pumps :
          /\ JustListed(p) =>
                LET ids == BatchIds(pump'[p])
                    all == {e.id : e \in events}
                IN /\ ids \subseteq all
                   /\ Cardinality(ids) = IF Cardinality(all) < eventPollingLimit
                                          THEN Cardinality(all) ELSE eventPollingLimit
                   /\ \A a \in ids, b \in all \ ids : a < b
                   /\ Len(pump'[p].batch) = Cardinality(ids)
          /\ JustDrained(p) =>
                /\ \A e \in events' : e.id \notin BatchIds(pump'[p])
                /\ pump'[p].dropped = BatchIds(pump'[p])
      ]_vars

\* C18 witness: three rows were committed by one transaction; an iteration
\* read two of them, removed both without an error and returned, and the
\* third is still in the outbox.
DrainsFirstPageWitness ==
    \E p \in Pumps :
        /\ pump[p].pc = "return"
        /\ pump[p].failed = 0
        /\ Len(pump[p].batch) = eventPollingLimit
        /\ pump[p].dropped = BatchIds(pump[p])
        /\ \E e \in events : /\ e.id > pump[p].batch[eventPollingLimit].id
                               /\ oplog[e.op].txn = oplog[pump[p].batch[1].op].txn

\* pump p takes a poll tick
TickStep(p) == pump[p].pc = "idle" /\ signal' = signal /\ pump'[p] # pump[p]

\* pump p wakes up by the commit signal
SignalStep(p) == pump[p].pc = "idle" /\ signal' < signal /\ pump'[p] # pump[p]

\* pump p comes back from Sync to the loop
ReturnStep(p) == pump[p].pc = "return" /\ pump'[p].pc = "idle"

\* what a poll tick does: it is skipped, clearing the flag, if the flag is
\* set, and starts a drain otherwise
TickRule(p) ==
    TickStep(p) =>
        IF pump[p].recentlySynced
        THEN pump'[p].pc = "idle" /\ ~pump'[p].recentlySynced
        ELSE pump'[p].pc = "list" /\ ~pump'[p].recentlySynced

\* C19 as stated: the next poll tick is skipped if and only if the previous
\* iteration drained at least one event (the flag a tick looks at is set,
\* when an iteration ends, exactly if it removed a row); after a skipped tick
\* or an iteration that drained nothing the following tick runs a drain.
DebounceIffDrained ==
    [][\A p \in Pumps :
          /\ TickRule(p)
          /\ ReturnStep(p) => (pump'[p].recentlySynced = (pump[p].dropped # {}))
      ]_vars

\* C19 amended: the next poll tick is skipped if and only if the previous
\* iteration was started by the commit signal, whatever it drained; after a
\* skipped tick, or after an iteration started by a poll tick, the following
\* tick runs a drain.
DebounceIffSignalled ==
    [][\A p \in Pumps :
          /\ TickRule(p)
          /\ SignalStep(p) => (pump'[p].pc = "list" /\ pump'[p].recentlySynced)
          /\ pump[p].pc # "idle" => pump'[p].recentlySynced = pump[p].recentlySynced
      ]_vars

\* C19 witness: an iteration started by the commit signal found the outbox
\* empty and returns having drained nothing, the flag set: the next tick
\* will be skipped.
DebounceIffSignalledWitness ==
    \E p \in Pumps :
        /\ pump[p].pc = "return"
        /\ pump[p].recentlySynced
        /\ drained
        /\ pump[p].batch = <<>> /\ pump[p].dropped = {}
        /\ seen # {}

\* C20: a state report with a whole-number version >= state_version on a
\* live versioned resource with state_version < config_version (as read)
\* builds a record whose state_version is the payload version and whose
\* state and error are the payload's where they are strings, and its commit
\* stores them; with an environment registered the calls of an applied
\* report are, in this order, the pre hook once, the write of the state
\* record, the post hook once, the commit; without one, the write and the
\* commit.
CatchUpReport ==
    [][/\ ReadStep("state") =>
          \A g \in Tasks, data \in Payloads :
             LET r == ReadRes(g)
                 out == StateUpdate(r, data, "none")
                 old == db[r]
             IN (/\ StateVersioning(r) /\ old.exists /\ StateReportRead(g, r, data, "none")
                 /\ old.state_version < old.config_version
                 /\ data.version.kind = "number" /\ WholeVersion(data)
                 /\ data.version.num >= 2 * old.state_version) =>
                    /\ ~out.err
                    /\ Started(g)
                    /\ tasks'[g].row.state_version = data.version.num \div 2
                    /\ tasks'[g].row.state =
                          IF data.state.kind = "string" THEN data.state.str ELSE old.state
                    /\ tasks'[g].row.error =
                          IF data.error.kind = "string" THEN data.error.str ELSE old.error
                    /\ tasks'[g].calls = <<>>
       /\ \A g \in Tasks :
            (Applied(g) /\ tasks[g].kind = "state" /\ db[tasks[g].res].exists) =>
                /\ StoresBuilt(g)
                /\ LastReport.calls = IF HaveEnvironment(tasks[g].res)
                                      THEN <<"pre", "StateUpdate", "post", "Commit">>
                                      ELSE <<"StateUpdate", "Commit">>
      ]_vars

\* C20 witness: a catch-up report on the resource with an environment was
\* applied: the state_version is the payload's, state and error are copied.
CatchUpReportWitness ==
    /\ \E i \in 1..Len(reports) :
          Logged(i, "state", "net", "applied")
    /\ db["net"].exists
    /\ db["net"].state_version = MaxPayloadVersion
    /\ db["net"].state = "active" /\ db["net"].error = "down"

\* what a reconciler whose hook failed leaves behind: the error is returned
\* to the consumer, nothing was committed, the database is as before and
\* the goroutine has ended
Aborted(g) ==
    /\ tasks'[g] = IdleTask
    /\ Len(reports') = Len(reports) + 1
    /\ LastReport.how = "error"
    /\ \A n \in 1..Len(LastReport.calls) : LastReport.calls[n] # "Commit"
    /\ db' = db
    /\ tx' = tx

\* C21: when the pre or post hook of StateUpdate or MonitoringUpdate
\* returns an error, the transaction is not committed, the error is
\* returned to the consumer of the watch, and the state record
\* (state_version, state, error, monitoring) is not changed by the report:
\* the step in which the hook fails leaves the database as it is, and so
\* does every step of a reconciler but the commit of one that returns no
\* error.
HookErrorAborts ==
    [][/\ \A g \in Tasks : (ReportPre(g, "pre") \/ ReportCommit(g, "post")) => Aborted(g)
       /\ OnlyCommitsChange
      ]_vars

\* C21 witness: on the live resource a state report ended with the error of
\* its post hook, after its write, and a monitoring report with the error
\* of its pre hook, and a later report of each kind was applied.
HookErrorAbortsWitness ==
    /\ \E i, j \in 1..Len(reports) :
          /\ i < j
          /\ Logged(i, "state", "net", "error")
          /\ reports[i].calls = <<"pre", "StateUpdate", "post">>
          /\ Logged(j, "state", "net", "applied")
    /\ \E i, j \in 1..Len(reports) :
          /\ i < j
          /\ Logged(i, "monitoring", "net", "error")
          /\ reports[i].calls = <<"pre">>
          /\ Logged(j, "monitoring", "net", "applied")
    /\ Len(oplog) = 1 /\ txlog = <<"committed">>
    /\ db["net"].state_version = 1 /\ db["net"].monitoring = "ok"

\* a live versioned resource whose state_version is not its config_version
NotCaughtUp(r) ==
    /\ StateVersioning(r)
    /\ db[r].exists
    /\ db[r].state_version # db[r].config_version

\* the report was refused: an error is returned and the record is as before
Dropped(out) ==
    /\ out.err
    /\ db' = db
    /\ Refused("state")
    /\ LastReport.how = "error"

\* C22 as stated: a state report on a resource not yet caught up whose
\* payload has no version, or has a state that is not a string, returns an
\* error and leaves the state record unchanged.
MalformedReportDropped ==
    [][ReadStep("state") =>
       \A g \in Tasks, data \in Payloads :
          LET r == ReadRes(g)
          IN (NotCaughtUp(r) /\ StateReportRead(g, r, data, "none")) =>
              ((data.version.kind # "number" \/ data.state.kind = "number")
               => Dropped(StateUpdate(r, data, "none")))]_vars

\* C22: a state report on a resource not yet caught up whose payload has no
\* numeric version returns an error and leaves the state record unchanged;
\* a state that is absent or not a string is not an error: with a version
\* (a whole number) not below the state_version read, the reconciler builds
\* a record with the payload version and the state it read, and its commit
\* stores them.
MalformedVersionDropped ==
    [][/\ ReadStep("state") =>
          \A g \in Tasks, data \in Payloads :
             LET r == ReadRes(g)
                 out == StateUpdate(r, data, "none")
             IN (NotCaughtUp(r) /\ StateReportRead(g, r, data, "none")) =>
                 /\ data.version.kind # "number" => Dropped(out)
                 /\ (/\ data.version.kind = "number" /\ WholeVersion(data)
                     /\ data.version.num >= 2 * db[r].state_version
                     /\ data.state.kind # "string")
                    => /\ ~out.err
                       /\ Started(g)
                       /\ 2 * tasks'[g].row.state_version = data.version.num
                       /\ tasks'[g].row.state = db[r].state
       /\ \A g \in Tasks :
            (Applied(g) /\ db[tasks[g].res].exists) =>
                /\ db'[tasks[g].res].state_version = tasks[g].row.state_version
                /\ db'[tasks[g].res].state = tasks[g].row.state
                /\ LastReport.kind = "state" /\ LastReport.res = tasks[g].res
      ]_vars

\* C22 witness: on the resource created once, a report was refused and the
\* next one was applied with the highest version, which only payloads
\* without a string state carry with the state column still empty.
MalformedVersionDroppedWitness ==
    /\ Len(oplog) = 1 /\ txlog = <<"committed">>
    /\ Len(reports) = 2
    /\ Logged(1, "state", "net", "error")
    /\ Logged(2, "state", "net", "applied")
    /\ db["net"].exists
    /\ db["net"].state_version = MaxPayloadVersion
    /\ db["net"].state # "active"

\* the payload versions of the state reports on r that were applied
Accepted(r) ==
    {reports'[i].version :
        i \in {j \in 1..Len(reports') : /\ reports'[j].kind = "state" /\ reports'[j].res = r
                                        /\ reports'[j].how = "applied"}}

\* C23: with two state reports on one versioned resource reconciled by
\* concurrent StateUpdate tasks, no step lowers the persisted state_version,
\* and once both tasks have finished it is the highest payload version that
\* was accepted.
ConcurrentReportsGate ==
    [][\A r \in Resources :
          (StateVersioning(r) /\ db[r].exists /\ db'[r].exists) =>
             /\ db'[r].state_version >= db[r].state_version
             /\ (/\ Len(reports') = MaxTasks
                 /\ \A g \in Tasks : tasks'[g].stage = "idle"
                 /\ Accepted(r) # {}) =>
                   /\ db'[r].state_version \in Accepted(r)
                   /\ \A v \in Accepted(r) : v <= db'[r].state_version]_vars

====
